---- MODULE Spec2Model ----
(***************************************************************************)
(* Model of package tmpl (src/unnamed/part_000): the template registry     *)
(* (templates, templatesMu, Get, Add, Delete) and the render pipeline      *)
(* (Exec, executeTemplateBase).                                            *)
(*                                                                         *)
(* Strings that the code inspects character by character (header values,   *)
(* the decimal status, the random error id) are sequences of one-character *)
(* strings; everything the code only passes along is an opaque value.      *)
(***************************************************************************)
EXTENDS Integers, Sequences, FiniteSets, TLC

VARIABLES
    templates,    \* the registry map: name -> unit, NoUnit when the key is absent
    templatesMu,  \* the task holding the registry mutex, Nil when free
    pc,           \* position of each Exec task
    call,         \* arguments of each Exec call: req, name, status, header
    data,         \* the caller's page data of each call (Exec writes its Common)
    given,        \* the page data as the caller passed it (never written)
    appEvent,     \* the UserEvent Exec builds
    t,            \* local t of executeTemplateBase
    bw,           \* the httputil.ResponseBuffer of each call
    resp,         \* the real response sink: the sequence of responses written
    result,       \* what Exec returned
    eventLog,     \* events passed to metricutil.LogEvent
    pageViews,    \* records passed to eventsutil.LogPageView
    lookups,      \* number of Registry lookups each call has made
    executions,   \* number of template executions each call has started
    mpc,          \* position of each registry-mutating task (Add / Delete callers)
    assets,       \* tmpldata.Data: what each template fragment file holds
    aborted,      \* TRUE once log.Fatalf has ended the process
    lpc,          \* position of each Load call: the group it is in
    wg,           \* the sync.WaitGroup counter of each parseHTMLTemplates call
    ct            \* the compile tasks (goroutines) of each parseHTMLTemplates call

\* the state of Load and its compile tasks
loadVars == <<assets, aborted, lpc, wg, ct>>

vars == <<templates, templatesMu, pc, call, data, given, appEvent, t, bw, resp,
          result, eventLog, pageViews, lookups, executions, mpc, loadVars>>

----------------------------------------------------------------------------
(* Bounds and value domains *)

Nil == "nil"

\* body chunks a template execution writes before it finishes
MaxChunks == 2

ExecTasks == {"exec1"}
MutTasks == {"mut1"}

Names == {"repo/main.html", "error/error.html"}
\* a *htmpl.Template is a tuple; the nil template (an absent key) the empty one
NoUnit == <<>>
Units == {<<"unitA">>, <<"unitB">>}

\* http.StatusNotModified
StatusNotModified == 304
Statuses == {200, StatusNotModified, 404}

----------------------------------------------------------------------------
(* Strings as character sequences *)

NoCache == <<"n","o","-","c","a","c","h","e">>
MaxAge0 == <<"m","a","x","-","a","g","e","=","0">>
MaxAge3600 == <<"m","a","x","-","a","g","e","=","3","6","0","0">>

NoStore == <<"n","o","-","s","t","o","r","e">>
NoCach == <<"n","o","-","c","a","c","h">>
MaxAgeEq == <<"m","a","x","-","a","g","e","=">>
NoCacheCapitalised == <<"N","o","-","C","a","c","h","e">>
MaxAge05 == <<"m","a","x","-","a","g","e","=","0","5">>
MaxAge0Private == <<"m","a","x","-","a","g","e","=","0",","," ","p","r","i","v","a","t","e">>
PrivateNoCache == <<"p","r","i","v","a","t","e",","," ","n","o","-","c","a","c","h","e">>

\* values of the request's Cache-Control header, <<>> when there is none
CacheControlValues ==
    { <<>>, NoCache, MaxAge0, MaxAge3600, NoStore, NoCach, MaxAgeEq,
      NoCacheCapitalised, MaxAge05, MaxAge0Private, PrivateNoCache }

\* strings.Contains
Contains(s, substr) ==
    \E i \in 0..(Len(s) - Len(substr)) : SubSeq(s, i + 1, i + Len(substr)) = substr

DigitChars == <<"0","1","2","3","4","5","6","7","8","9">>

\* strconv.Itoa for the non-negative codes used here
RECURSIVE Itoa(_)
Itoa(n) ==
    IF n < 10 THEN <<DigitChars[n + 1]>>
    ELSE Itoa(n \div 10) \o <<DigitChars[(n % 10) + 1]>>

\* length of the error id Exec asks for
ErrorIDLen == 6

\* randstring.NewLen: the strings a call may return
NewLen(n) == { [i \in 1..n |-> c] : c \in {"x", "y"} }

----------------------------------------------------------------------------
(* Requests and the collaborators that read them.  A pointer is a tuple,    *)
(* the nil pointer the empty tuple; a URL is <<host, path, query>>.         *)

NilPtr == <<>>

\* cookie: what the session store holds for the request
Requests ==
    { [Host |-> "h.example", URL |-> <<"", "/repo", "utm=1">>, CacheControl |-> <<>>,
       cookie |-> ck] : ck \in {"valid", "none", "corrupt"} }
    \cup
    { [Host |-> "other.example", URL |-> <<"", "/login", "">>, CacheControl |-> NoCache,
       cookie |-> "valid"] }

\* conf.AppURL(ctx)
AppURL == <<"app.example", "/", "">>

\* (*url.URL).ResolveReference
ResolveReference(base, ref) ==
    IF ref[1] # "" THEN ref ELSE <<base[1], ref[2], ref[3]>>

\* canonicalurl.FromURL
FromURL(u) == <<u[1], u[2], "">>

ErrNoSession == "ErrNoSession"
ErrSessionIO == "ErrSessionIO"

\* appauth.ReadSessionCookie: the pair (sess, err)
ReadSessionCookie(req) ==
    CASE req.cookie = "valid"   -> [sess |-> <<"session", req.Host>>, err |-> Nil]
      [] req.cookie = "none"    -> [sess |-> NilPtr, err |-> ErrNoSession]
      [] req.cookie = "corrupt" -> [sess |-> NilPtr, err |-> ErrSessionIO]

\* err != nil && err != appauth.ErrNoSession
SessionReadFailedIgnored(err) == FALSE
SessionReadFailedStrict(err) == err # Nil
SessionReadFailed(err) == err # Nil /\ err # ErrNoSession

\* handlerutil.UserFromRequest
UserFromRequest(req) ==
    IF req.cookie = "valid" THEN <<"user", 7>> ELSE NilPtr

----------------------------------------------------------------------------
(* Headers: an http.Header is a set of <<key, value>> pairs, one per key *)

\* textproto.CanonicalMIMEHeaderKey on the keys used here
CanonicalKey(k) == IF k = "content-type" THEN "Content-Type" ELSE k

\* http.Header.Get: the value under the canonical key, "" when there is none
HeaderGetRawKey(h, k) ==
    IF \E p \in h : p[1] = k
    THEN (CHOOSE p \in h : p[1] = k)[2]
    ELSE ""
HeaderGet(h, k) ==
    IF \E p \in h : p[1] = CanonicalKey(k)
    THEN (CHOOSE p \in h : p[1] = CanonicalKey(k))[2]
    ELSE ""

\* http.Header.Set
HeaderSet(h, k, v) ==
    { p \in h : p[1] # CanonicalKey(k) } \cup { <<CanonicalKey(k), v>> }

CopyHeaderNone(dst, src) == dst
\* for k, v := range src { dst[k] = v }
CopyHeader(dst, src) ==
    { p \in dst : ~ \E q \in src : q[1] = p[1] } \cup src

HeaderSets == { {},
                { <<"X-Frame-Options", "DENY">> },
                { <<"Content-Type", "application/json">> } }

DefaultContentType == "text/html; charset=utf-8"

----------------------------------------------------------------------------
(* Common and page data *)

\* the zero value of type Common
ZeroCommon ==
    [ RequestHost |-> "", Session |-> NilPtr, CSRFToken |-> <<>>,
      CurrentUser |-> NilPtr, UserEmails |-> NilPtr, CurrentRoute |-> <<>>,
      CurrentURI |-> NilPtr, CurrentURL |-> NilPtr, CurrentQuery |-> <<>>,
      CurrentSpanID |-> <<>>, TemplateName |-> "", AppURL |-> NilPtr,
      CanonicalURL |-> NilPtr, HostName |-> "", Ctx |-> NilPtr,
      CurrentRouteVars |-> <<>>, Debug |-> FALSE, ReturnTo |-> <<>>,
      DisableExternalLinks |-> FALSE, Features |-> NilPtr, ErrorID |-> <<>>,
      CacheControl |-> <<>>, HideMOTD |-> FALSE, HideSearch |-> FALSE ]

CallerCanonical == <<"caller.example", "/canonical", "">>

\* a Common in which the caller has set every field
CallerCommon(hide, canonical) ==
    [ RequestHost |-> "caller", Session |-> <<"caller">>, CSRFToken |-> <<"caller">>,
      CurrentUser |-> <<"caller">>, UserEmails |-> <<"caller">>,
      CurrentRoute |-> <<"caller">>, CurrentURI |-> <<"caller">>,
      CurrentURL |-> <<"caller">>, CurrentQuery |-> <<"caller">>,
      CurrentSpanID |-> <<"caller">>, TemplateName |-> "caller",
      AppURL |-> <<"caller">>, CanonicalURL |-> canonical, HostName |-> "caller",
      Ctx |-> <<"caller">>, CurrentRouteVars |-> <<"caller">>, Debug |-> TRUE,
      ReturnTo |-> <<"caller">>, DisableExternalLinks |-> TRUE,
      Features |-> <<"caller">>, ErrorID |-> <<"c">>, CacheControl |-> <<"c">>,
      HideMOTD |-> hide, HideSearch |-> TRUE ]

CallerCommons ==
    { ZeroCommon,
      CallerCommon(TRUE, CallerCanonical),
      CallerCommon(TRUE, NilPtr),
      CallerCommon(FALSE, CallerCanonical) }

\* The data argument of Exec.  isNil: the caller passed nil.  Err: "nofield"
\* when the page data type has no Err field, Nil when the field holds a nil
\* error, otherwise the error's message.
NilData == [isNil |-> TRUE, Common |-> ZeroCommon, Err |-> "nofield"]

PageDatas ==
    {NilData} \cup
    { [isNil |-> FALSE, Common |-> c, Err |-> e] :
        c \in CallerCommons, e \in {"nofield", Nil, "boom"} }

\* reflect.Value.IsValid of FieldByName("Err")
ErrFieldIsValid(d) == d.Err # "nofield"

----------------------------------------------------------------------------
(* The values Exec computes for the injected Common *)

\* handlerutil.FullUserFromRequest
FullUserFromRequest(req) ==
    IF req.cookie = "valid" THEN <<"fulluser", 7>> ELSE NilPtr
\* handlerutil.EmailsFromRequest
EmailsFromRequest(req) ==
    IF req.cookie = "valid" THEN <<"emails", 7>> ELSE NilPtr
\* nosurf.Token
Token(req) == <<"csrf", req.cookie>>
\* httpctx.RouteName
RouteName(req) == <<"route", req.URL[2]>>
\* (*url.URL).Query
Query(u) == <<"query", u[3]>>
\* traceutil.SpanID
SpanID(req) == <<"span", req.URL[2]>>
\* mux.Vars
Vars(req) == <<"vars", req.URL[2]>>
\* handlerutil.DebugMode
DebugMode(req) == FALSE
\* returnto.BestGuess
BestGuess(req) == <<"returnto", req.URL[2]>>
\* httpctx.FromRequest
FromRequest(req) == <<"ctx", req.URL[2]>>
\* appconf.Flags.DisableExternalLinks
DisableExternalLinks == FALSE
\* feature.Features
Features == <<"features">>

\* HideMOTD: existingCommon.HideMOTD
HideMOTDDropped(existingCommon) == FALSE
HideMOTDOf(existingCommon) == existingCommon.HideMOTD

\* canonicalURL: the caller's when it supplied one, else derived
CanonicalURLAlwaysDerived(existingCommon, currentURL) == FromURL(currentURL)
CanonicalURLOf(existingCommon, currentURL) ==
    IF existingCommon.CanonicalURL = NilPtr
    THEN FromURL(currentURL)
    ELSE existingCommon.CanonicalURL

\* cacheControl
CacheControlOfNoCacheOnly(req) ==
    IF Contains(req.CacheControl, NoCache) THEN NoCache ELSE <<>>
CacheControlOf(req) ==
    IF Contains(req.CacheControl, NoCache) \/ Contains(req.CacheControl, MaxAge0)
    THEN NoCache
    ELSE <<>>

NewCommonBlankErrorID(req, name, sess, existingCommon, errorID) ==
    [existingCommon EXCEPT !.ErrorID = <<>>]

\* the Common value Exec stores into the page data
NewCommon(req, name, sess, existingCommon, errorID) ==
    [ CurrentUser |-> FullUserFromRequest(req),
      UserEmails |-> EmailsFromRequest(req),
      RequestHost |-> req.Host,
      Session |-> sess,
      CSRFToken |-> Token(req),
      TemplateName |-> name,
      CurrentRoute |-> RouteName(req),
      CurrentURI |-> req.URL,
      CurrentURL |-> ResolveReference(AppURL, req.URL),
      CurrentQuery |-> Query(req.URL),
      AppURL |-> AppURL,
      CanonicalURL |-> CanonicalURLOf(existingCommon, ResolveReference(AppURL, req.URL)),
      Ctx |-> FromRequest(req),
      CurrentSpanID |-> SpanID(req),
      CurrentRouteVars |-> Vars(req),
      Debug |-> DebugMode(req),
      ReturnTo |-> BestGuess(req),
      DisableExternalLinks |-> DisableExternalLinks,
      Features |-> Features,
      ErrorID |-> errorID,
      CacheControl |-> CacheControlOf(req),
      HideMOTD |-> HideMOTDOf(existingCommon),
      \* fields the composite literal leaves at their zero value
      HostName |-> "",
      HideSearch |-> FALSE ]

----------------------------------------------------------------------------
(* Load: the declared template sets and the fragment files *)

\* A group is one parseHTMLTemplates call: its sets, and the layout fragments
\* appended to every set.  Each group keeps a few of the sets the code declares.
repoTemplates ==
    [sets |-> << <<"repo/main.html", "repo/commit.inc.html">>, <<"repo/search.html">> >>,
     layout |-> <<"layout.html">>]

commonTemplates ==
    [sets |-> << <<"error/error.html">> >>, layout |-> <<"layout.html">>]

standaloneTemplates ==
    [sets |-> << <<"def/popover.html">> >>, layout |-> <<"common.html">>]

\* Load runs the groups in this order
Load == <<repoTemplates, commonTemplates, standaloneTemplates>>

\* set := setv; if layout != nil { set = append(setv, layout...) }
SetWithLayout(g, n) == Load[g].sets[n] \o Load[g].layout

\* every declared set, as <<group, index in the group>>
DeclaredSets == UNION { { <<g, n>> : n \in DOMAIN Load[g].sets } : g \in DOMAIN Load }

\* set[0], the key a set is registered under
KeyOf(s) == SetWithLayout(s[1], s[2])[1]
DeclaredKeys == { KeyOf(s) : s \in DeclaredSets }

Range(s) == { s[i] : i \in DOMAIN s }

Fragments == UNION { Range(SetWithLayout(s[1], s[2])) : s \in DeclaredSets }

\* the keys of the registry map
RegistryNames == Names \cup DeclaredKeys

\* the tasks that call Load
Loaders == {"loadA", "loadB"}

\* the goroutines one parseHTMLTemplates call starts, one per set of the group
Slots == UNION { DOMAIN Load[g].sets : g \in DOMAIN Load }
TaskId(l, n) == l \o "/" \o ToString(n)
CompileTasks == { TaskId(l, n) : l \in Loaders, n \in Slots }
\* the goroutines of the Load call of l
TasksOf(l) == { TaskId(l, n) : n \in Slots }

\* lpc: 0 before Load is called, g while the g-th group is being compiled,
\* LoadReturned after Load has returned
LoadReturned == Len(Load) + 1

\* A fragment file is "root" (parses, defines ROOT), "plain" (parses, without
\* ROOT), "missing" (Open fails), "unreadable" (ReadAll fails) or "malformed"
\* (Parse fails).
GoodAssets ==
    [f \in Fragments |-> IF f \in {"layout.html", "common.html"} THEN "root" ELSE "plain"]

AssetWorlds ==
    { GoodAssets,
      [GoodAssets EXCEPT !["repo/commit.inc.html"] = "missing"],
      [GoodAssets EXCEPT !["repo/main.html"] = "unreadable"],
      [GoodAssets EXCEPT !["repo/search.html"] = "malformed"],
      [GoodAssets EXCEPT !["common.html"] = "plain"] }

\* a goroutine that has not been started
NoTask == [pc |-> "none", loader |-> "", set |-> <<>>, i |-> 0, t |-> NoUnit]

----------------------------------------------------------------------------
(* State *)

NoRequest == [Host |-> "", URL |-> NilPtr, CacheControl |-> <<>>, cookie |-> "none"]
NoCall == [req |-> NoRequest, name |-> "", status |-> 0, header |-> {}]
NoEvent == [Type |-> "", Service |-> NilPtr, Method |-> "", Result |-> <<>>,
            URL |-> NilPtr, UID |-> 0, Message |-> <<>>]
\* the zero value of httputil.ResponseBuffer
EmptyBuffer == [header |-> {}, code |-> 0, body |-> <<>>]
Pending == "pending"

ErrNotFound == "Template not found"
ErrExecute == "template execution error"

Init ==
    /\ templates = [n \in Names |-> NoUnit]
    /\ templatesMu = Nil
    /\ pc = [r \in ExecTasks |-> "idle"]
    /\ call = [r \in ExecTasks |-> NoCall]
    /\ data = [r \in ExecTasks |-> NilData]
    /\ given = [r \in ExecTasks |-> NilData]
    /\ appEvent = [r \in ExecTasks |-> NoEvent]
    /\ t = [r \in ExecTasks |-> NoUnit]
    /\ bw = [r \in ExecTasks |-> EmptyBuffer]
    /\ resp = [r \in ExecTasks |-> <<>>]
    /\ result = [r \in ExecTasks |-> Pending]
    /\ eventLog = [r \in ExecTasks |-> <<>>]
    /\ pageViews = [r \in ExecTasks |-> <<>>]
    /\ lookups = [r \in ExecTasks |-> 0]
    /\ executions = [r \in ExecTasks |-> 0]
    /\ mpc = [m \in MutTasks |-> "idle"]
    /\ assets = GoodAssets
    /\ aborted = FALSE
    /\ lpc = [l \in Loaders |-> 0]
    /\ wg = [l \in Loaders |-> 0]
    /\ ct = [c \in CompileTasks |-> NoTask]

----------------------------------------------------------------------------
(* Exec *)

\* Exec is called with arguments from the given sets; ctx, currentUser and
\* appEvent are set up
ExecBeginWith(r, reqs, names, statuses, headers, datas) ==
    /\ pc[r] = "idle"
    /\ \E req \in reqs, name \in names, status \in statuses,
          header \in headers, d \in datas :
        LET currentUser == UserFromRequest(req) IN
        /\ call' = [call EXCEPT ![r] =
                        [req |-> req, name |-> name, status |-> status, header |-> header]]
        /\ data' = [data EXCEPT ![r] = d]
        /\ given' = [given EXCEPT ![r] = d]
        /\ appEvent' = [appEvent EXCEPT ![r] =
                        [Type |-> "app", Service |-> AppURL, Method |-> name,
                         Result |-> Itoa(status), URL |-> req.URL,
                         UID |-> IF currentUser # NilPtr THEN currentUser[2] ELSE 0,
                         Message |-> <<>>]]
    /\ pc' = [pc EXCEPT ![r] = "context"]
    /\ UNCHANGED loadVars
    /\ UNCHANGED <<templates, templatesMu, t, bw, resp, result, eventLog, pageViews,
                   lookups, executions, mpc>>

ExecBegin(r) == ExecBeginWith(r, Requests, Names, Statuses, HeaderSets, PageDatas)

ExecContextReadsSessionFirst(r) ==
    /\ pc[r] = "context"
    /\ LET rs == ReadSessionCookie(call[r].req) IN
       IF SessionReadFailed(rs.err)
       THEN /\ result' = [result EXCEPT ![r] = rs.err]
            /\ pc' = [pc EXCEPT ![r] = "returned"]
       ELSE /\ pc' = [pc EXCEPT ![r] = "log"]
            /\ UNCHANGED result
    /\ UNCHANGED loadVars
    /\ UNCHANGED <<templates, templatesMu, call, data, given, appEvent, t, bw, resp,
                   eventLog, pageViews, lookups, executions, mpc>>

\* the if data != nil block: session read, error id, injection of Common
ExecContext(r) ==
    /\ pc[r] = "context"
    /\ LET req == call[r].req
           d == data[r]
           rs == ReadSessionCookie(req)
       IN
       IF d.isNil
       THEN /\ pc' = [pc EXCEPT ![r] = "log"]
            /\ UNCHANGED <<data, appEvent, result>>
       ELSE IF SessionReadFailed(rs.err)
       THEN \* return err
            /\ result' = [result EXCEPT ![r] = rs.err]
            /\ pc' = [pc EXCEPT ![r] = "returned"]
            /\ UNCHANGED <<data, appEvent>>
       ELSE IF ErrFieldIsValid(d) /\ d.Err = Nil
       THEN \* errField.Interface().(error) on a nil interface value panics
            /\ pc' = [pc EXCEPT ![r] = "panicked"]
            /\ UNCHANGED <<data, appEvent, result>>
       ELSE IF ErrFieldIsValid(d)
       THEN \E errorID \in NewLen(ErrorIDLen) :
            /\ appEvent' = [appEvent EXCEPT ![r].Message =
                                <<"ErrorID:", errorID, " Msg:", d.Err>>]
            /\ data' = [data EXCEPT ![r].Common =
                            NewCommon(req, call[r].name, rs.sess, d.Common, errorID)]
            /\ pc' = [pc EXCEPT ![r] = "log"]
            /\ UNCHANGED result
       ELSE /\ data' = [data EXCEPT ![r].Common =
                            NewCommon(req, call[r].name, rs.sess, d.Common, <<>>)]
            /\ pc' = [pc EXCEPT ![r] = "log"]
            /\ UNCHANGED <<appEvent, result>>
    /\ UNCHANGED loadVars
    /\ UNCHANGED <<templates, templatesMu, call, given, t, bw, resp, eventLog,
                   pageViews, lookups, executions, mpc>>

ExecLogEventsNoPageView(r) ==
    /\ pc[r] = "log"
    /\ eventLog' = [eventLog EXCEPT ![r] = Append(@, appEvent[r])]
    /\ pc' = [pc EXCEPT ![r] = "buffer"]
    /\ UNCHANGED loadVars
    /\ UNCHANGED <<templates, templatesMu, call, data, given, appEvent, t, bw, resp,
                   result, pageViews, lookups, executions, mpc>>

\* metricutil.LogEvent and eventsutil.LogPageView
ExecLogEvents(r) ==
    /\ pc[r] = "log"
    /\ eventLog' = [eventLog EXCEPT ![r] = Append(@, appEvent[r])]
    /\ pageViews' = [pageViews EXCEPT ![r] =
                        Append(@, <<UserFromRequest(call[r].req), call[r].req.URL>>)]
    /\ pc' = [pc EXCEPT ![r] = "buffer"]
    /\ UNCHANGED loadVars
    /\ UNCHANGED <<templates, templatesMu, call, data, given, appEvent, t, bw, resp,
                   result, lookups, executions, mpc>>

\* the header of bw after the copy loop and the content-type default
BufferHeader(header) ==
    LET copied == CopyHeader({}, header) IN
    IF HeaderGet(copied, "content-type") = ""
    THEN HeaderSet(copied, "Content-Type", DefaultContentType)
    ELSE copied

\* status == http.StatusNotModified
IsNotModifiedNever(status) == FALSE
IsNotModified(status) == status = StatusNotModified

\* bw is filled with headers and status; Not Modified returns here
ExecBuffer(r) ==
    /\ pc[r] = "buffer"
    /\ bw' = [bw EXCEPT ![r] = [header |-> BufferHeader(call[r].header),
                                code |-> call[r].status,
                                body |-> <<>>]]
    /\ IF IsNotModified(call[r].status)
       THEN /\ result' = [result EXCEPT ![r] = Nil]
            /\ pc' = [pc EXCEPT ![r] = "returned"]
       ELSE /\ pc' = [pc EXCEPT ![r] = "get"]
            /\ UNCHANGED result
    /\ UNCHANGED loadVars
    /\ UNCHANGED <<templates, templatesMu, call, data, given, appEvent, t, resp,
                   eventLog, pageViews, lookups, executions, mpc>>

----------------------------------------------------------------------------
(* Get, as called by executeTemplateBase *)

GetLockBarging(r) ==
    /\ pc[r] = "get"
    /\ templatesMu' = r
    /\ pc' = [pc EXCEPT ![r] = "get_locked"]
    /\ UNCHANGED loadVars
    /\ UNCHANGED <<templates, call, data, given, appEvent, t, bw, resp, result,
                   eventLog, pageViews, lookups, executions, mpc>>

\* templatesMu.Lock()
GetLock(r) ==
    /\ pc[r] = "get"
    /\ templatesMu = Nil
    /\ templatesMu' = r
    /\ pc' = [pc EXCEPT ![r] = "get_locked"]
    /\ UNCHANGED loadVars
    /\ UNCHANGED <<templates, call, data, given, appEvent, t, bw, resp, result,
                   eventLog, pageViews, lookups, executions, mpc>>

GetRead(r) ==
    /\ pc[r] = "get_locked"
    /\ t' = [t EXCEPT ![r] = templates[call[r].name]]
    /\ lookups' = [lookups EXCEPT ![r] = @ + 1]
    /\ pc' = [pc EXCEPT ![r] = "get_read"]
    /\ UNCHANGED loadVars
    /\ UNCHANGED <<templates, templatesMu, call, data, given, appEvent, bw, resp,
                   result, eventLog, pageViews, executions, mpc>>

GetUnlockKeeps(r) ==
    /\ pc[r] = "get_read"
    /\ pc' = [pc EXCEPT ![r] = "got"]
    /\ UNCHANGED loadVars
    /\ UNCHANGED <<templates, templatesMu, call, data, given, appEvent, t, bw, resp,
                   result, eventLog, pageViews, lookups, executions, mpc>>

\* templatesMu.Unlock() and return t
GetUnlock(r) ==
    /\ pc[r] = "get_read"
    /\ templatesMu' = Nil
    /\ pc' = [pc EXCEPT ![r] = "got"]
    /\ UNCHANGED loadVars
    /\ UNCHANGED <<templates, call, data, given, appEvent, t, bw, resp, result,
                   eventLog, pageViews, lookups, executions, mpc>>

----------------------------------------------------------------------------
(* executeTemplateBase and the end of Exec *)

ExecLookupMissFlushes(r) ==
    /\ pc[r] = "got"
    /\ t[r] = NoUnit
    /\ result' = [result EXCEPT ![r] = ErrNotFound]
    /\ resp' = [resp EXCEPT ![r] = Append(@, bw[r])]
    /\ pc' = [pc EXCEPT ![r] = "returned"]
    /\ UNCHANGED loadVars
    /\ UNCHANGED <<templates, templatesMu, call, data, given, appEvent, t, bw,
                   eventLog, pageViews, lookups, executions, mpc>>

\* t == nil: the not-found error goes back through Exec's if err != nil
ExecLookupMiss(r) ==
    /\ pc[r] = "got"
    /\ t[r] = NoUnit
    /\ result' = [result EXCEPT ![r] = ErrNotFound]
    /\ pc' = [pc EXCEPT ![r] = "returned"]
    /\ UNCHANGED loadVars
    /\ UNCHANGED <<templates, templatesMu, call, data, given, appEvent, t, bw, resp,
                   eventLog, pageViews, lookups, executions, mpc>>

\* t.Execute(w, data) is entered
ExecuteBegin(r) ==
    /\ pc[r] = "got"
    /\ t[r] # NoUnit
    /\ executions' = [executions EXCEPT ![r] = @ + 1]
    /\ pc' = [pc EXCEPT ![r] = "executing"]
    /\ UNCHANGED loadVars
    /\ UNCHANGED <<templates, templatesMu, call, data, given, appEvent, t, bw, resp,
                   result, eventLog, pageViews, lookups, mpc>>

\* the i-th piece of output of unit u executed against page data d
Chunk(u, d, i) == [unit |-> u, part |-> i, data |-> d]

ExecuteWriteEscapes(r) ==
    /\ pc[r] = "executing"
    /\ Len(bw[r].body) < MaxChunks
    /\ bw' = [bw EXCEPT ![r].body = Append(@, Chunk(t[r], data[r], Len(@) + 1))]
    /\ templates' = [templates EXCEPT ![call[r].name] =
                        IF @ = NoUnit THEN @ ELSE Append(@, "escaped")]
    /\ UNCHANGED loadVars
    /\ UNCHANGED <<templatesMu, pc, call, data, given, appEvent, t, resp,
                   result, eventLog, pageViews, lookups, executions, mpc>>

ExecuteWriteUnbuffered(r) ==
    /\ pc[r] = "executing"
    /\ Len(bw[r].body) < MaxChunks
    /\ bw' = [bw EXCEPT ![r].body = Append(@, Chunk(t[r], data[r], Len(@) + 1))]
    /\ resp' = [resp EXCEPT ![r] =
                    Append(@, [header |-> bw[r].header, code |-> bw[r].code,
                               body |-> <<Chunk(t[r], data[r], Len(bw[r].body) + 1)>>])]
    /\ UNCHANGED loadVars
    /\ UNCHANGED <<templates, templatesMu, pc, call, data, given, appEvent, t,
                   result, eventLog, pageViews, lookups, executions, mpc>>

\* the template writes its next piece of output into bw
ExecuteWriteRereads(r) ==
    /\ pc[r] = "executing"
    /\ Len(bw[r].body) < MaxChunks
    /\ bw' = [bw EXCEPT ![r].body =
                Append(@, Chunk(templates[call[r].name], data[r], Len(@) + 1))]
    /\ UNCHANGED loadVars
    /\ UNCHANGED <<templates, templatesMu, pc, call, data, given, appEvent, t, resp,
                   result, eventLog, pageViews, lookups, executions, mpc>>

ExecuteWrite(r) ==
    /\ pc[r] = "executing"
    /\ Len(bw[r].body) < MaxChunks
    /\ bw' = [bw EXCEPT ![r].body = Append(@, Chunk(t[r], data[r], Len(@) + 1))]
    /\ UNCHANGED loadVars
    /\ UNCHANGED <<templates, templatesMu, pc, call, data, given, appEvent, t, resp,
                   result, eventLog, pageViews, lookups, executions, mpc>>

\* a template func panics or returns an error: Execute fails, Exec returns err
ExecuteFail(r) ==
    /\ pc[r] = "executing"
    /\ result' = [result EXCEPT ![r] = ErrExecute]
    /\ pc' = [pc EXCEPT ![r] = "returned"]
    /\ UNCHANGED loadVars
    /\ UNCHANGED <<templates, templatesMu, call, data, given, appEvent, t, bw, resp,
                   eventLog, pageViews, lookups, executions, mpc>>

\* (*httputil.ResponseBuffer).WriteTo: the sink after the buffer is written to it
WriteTo(buf, sink) == Append(sink, buf)

\* Execute returns nil and Exec returns bw.WriteTo(resp)
ExecFlush(r) ==
    /\ pc[r] = "executing"
    /\ Len(bw[r].body) = MaxChunks
    /\ resp' = [resp EXCEPT ![r] = WriteTo(bw[r], @)]
    /\ result' = [result EXCEPT ![r] = Nil]
    /\ pc' = [pc EXCEPT ![r] = "returned"]
    /\ UNCHANGED loadVars
    /\ UNCHANGED <<templates, templatesMu, call, data, given, appEvent, t, bw,
                   eventLog, pageViews, lookups, executions, mpc>>

----------------------------------------------------------------------------
(* Add and Delete, called by other tasks *)

AddLock(m) ==
    /\ mpc[m] = "idle"
    /\ templatesMu = Nil
    /\ templatesMu' = m
    /\ mpc' = [mpc EXCEPT ![m] = "add_locked"]
    /\ UNCHANGED loadVars
    /\ UNCHANGED <<templates, pc, call, data, given, appEvent, t, bw, resp, result,
                   eventLog, pageViews, lookups, executions>>

AddWrite(m) ==
    /\ mpc[m] = "add_locked"
    /\ \E name \in Names, tmpl \in Units :
        templates' = [templates EXCEPT ![name] = tmpl]
    /\ mpc' = [mpc EXCEPT ![m] = "add_written"]
    /\ UNCHANGED loadVars
    /\ UNCHANGED <<templatesMu, pc, call, data, given, appEvent, t, bw, resp, result,
                   eventLog, pageViews, lookups, executions>>

AddUnlock(m) ==
    /\ mpc[m] = "add_written"
    /\ templatesMu' = Nil
    /\ mpc' = [mpc EXCEPT ![m] = "idle"]
    /\ UNCHANGED loadVars
    /\ UNCHANGED <<templates, pc, call, data, given, appEvent, t, bw, resp, result,
                   eventLog, pageViews, lookups, executions>>

DeleteLock(m) ==
    /\ mpc[m] = "idle"
    /\ templatesMu = Nil
    /\ templatesMu' = m
    /\ mpc' = [mpc EXCEPT ![m] = "delete_locked"]
    /\ UNCHANGED loadVars
    /\ UNCHANGED <<templates, pc, call, data, given, appEvent, t, bw, resp, result,
                   eventLog, pageViews, lookups, executions>>

DeleteWriteAll(m) ==
    /\ mpc[m] = "delete_locked"
    /\ templates' = [n \in DOMAIN templates |-> NoUnit]
    /\ mpc' = [mpc EXCEPT ![m] = "delete_written"]
    /\ UNCHANGED loadVars
    /\ UNCHANGED <<templatesMu, pc, call, data, given, appEvent, t, bw, resp, result,
                   eventLog, pageViews, lookups, executions>>

\* delete(templates, name)
DeleteWrite(m) ==
    /\ mpc[m] = "delete_locked"
    /\ \E name \in Names :
        templates' = [templates EXCEPT ![name] = NoUnit]
    /\ mpc' = [mpc EXCEPT ![m] = "delete_written"]
    /\ UNCHANGED loadVars
    /\ UNCHANGED <<templatesMu, pc, call, data, given, appEvent, t, bw, resp, result,
                   eventLog, pageViews, lookups, executions>>

DeleteUnlock(m) ==
    /\ mpc[m] = "delete_written"
    /\ templatesMu' = Nil
    /\ mpc' = [mpc EXCEPT ![m] = "idle"]
    /\ UNCHANGED loadVars
    /\ UNCHANGED <<templates, pc, call, data, given, appEvent, t, bw, resp, result,
                   eventLog, pageViews, lookups, executions>>

----------------------------------------------------------------------------

Next ==
    \/ \E r \in ExecTasks :
        \/ ExecBegin(r)
        \/ ExecContext(r)
        \/ ExecLogEvents(r)
        \/ ExecBuffer(r)
        \/ GetLock(r)
        \/ GetRead(r)
        \/ GetUnlock(r)
        \/ ExecLookupMiss(r)
        \/ ExecuteBegin(r)
        \/ ExecuteWrite(r)
        \/ ExecuteFail(r)
        \/ ExecFlush(r)
    \/ \E m \in MutTasks :
        \/ AddLock(m)
        \/ AddWrite(m)
        \/ AddUnlock(m)
        \/ DeleteLock(m)
        \/ DeleteWrite(m)
        \/ DeleteUnlock(m)

Spec == Init /\ [][Next]_vars

----------------------------------------------------------------------------
(* One Exec call over a wider range of requests and headers, against a     *)
(* Registry that holds a unit for one name and none for the other.         *)

WideRequests ==
    { [Host |-> "h.example", URL |-> <<"", "/repo", "utm=1">>, CacheControl |-> cc,
       cookie |-> "valid"] : cc \in CacheControlValues }

\* the caller's header map; as http.Header requires, its keys are canonical
WideHeaderSets ==
    HeaderSets \cup
    { { <<"Content-Type", "text/plain">> },
      { <<"X-Frame-Options", "DENY">>, <<"Content-Type", "text/plain">> } }

WideDatas == { NilData, [isNil |-> FALSE, Common |-> ZeroCommon, Err |-> "nofield"] }

ExecBeginWide(r) ==
    ExecBeginWith(r, WideRequests, Names, Statuses, WideHeaderSets, WideDatas)

\* the state after Add("repo/main.html", unitA)
InitCall ==
    /\ templates = [n \in Names |-> IF n = "repo/main.html" THEN <<"unitA">> ELSE NoUnit]
    /\ templatesMu = Nil
    /\ pc = [r \in ExecTasks |-> "idle"]
    /\ call = [r \in ExecTasks |-> NoCall]
    /\ data = [r \in ExecTasks |-> NilData]
    /\ given = [r \in ExecTasks |-> NilData]
    /\ appEvent = [r \in ExecTasks |-> NoEvent]
    /\ t = [r \in ExecTasks |-> NoUnit]
    /\ bw = [r \in ExecTasks |-> EmptyBuffer]
    /\ resp = [r \in ExecTasks |-> <<>>]
    /\ result = [r \in ExecTasks |-> Pending]
    /\ eventLog = [r \in ExecTasks |-> <<>>]
    /\ pageViews = [r \in ExecTasks |-> <<>>]
    /\ lookups = [r \in ExecTasks |-> 0]
    /\ executions = [r \in ExecTasks |-> 0]
    /\ mpc = [m \in MutTasks |-> "idle"]
    /\ assets = GoodAssets
    /\ aborted = FALSE
    /\ lpc = [l \in Loaders |-> 0]
    /\ wg = [l \in Loaders |-> 0]
    /\ ct = [c \in CompileTasks |-> NoTask]

NextCall ==
    \E r \in ExecTasks :
        \/ ExecBeginWide(r)
        \/ ExecContext(r)
        \/ ExecLogEvents(r)
        \/ ExecBuffer(r)
        \/ GetLock(r)
        \/ GetRead(r)
        \/ GetUnlock(r)
        \/ ExecLookupMiss(r)
        \/ ExecuteBegin(r)
        \/ ExecuteWrite(r)
        \/ ExecuteFail(r)
        \/ ExecFlush(r)

SpecCall == InitCall /\ [][NextCall]_vars

----------------------------------------------------------------------------
(* Load, parseHTMLTemplates and the compile tasks *)

\* what a compile task or a Load call leaves alone of the render pipeline
execVars == <<pc, call, data, given, appEvent, t, bw, resp, result, eventLog,
              pageViews, lookups, executions, mpc>>

\* log.Fatalf: the process exits, nothing runs any more
Fatal ==
    /\ aborted' = TRUE
    /\ UNCHANGED <<assets, lpc, wg, ct>>

\* the loop of parseHTMLTemplates over the sets of group g: wg.Add(1) and one
\* goroutine per set, each with its own set and a new template htmpl.New("").
\* The goroutines of the previous group have all ended (wg.Wait).
ParseSpawn(l, g) ==
    /\ wg' = [wg EXCEPT ![l] = Len(Load[g].sets)]
    /\ ct' = [c \in CompileTasks |->
                IF \E n \in DOMAIN Load[g].sets : c = TaskId(l, n)
                THEN LET n == CHOOSE n \in DOMAIN Load[g].sets : c = TaskId(l, n)
                     IN [pc |-> "fetch", loader |-> l, set |-> SetWithLayout(g, n),
                         i |-> 1, t |-> <<c, <<>>>>]
                ELSE IF \E n \in Slots : c = TaskId(l, n) THEN NoTask ELSE ct[c]]

\* Load is called: repoTemplates starts its goroutines
LoadBegin(l) ==
    /\ ~ aborted
    /\ lpc[l] = 0
    /\ ParseSpawn(l, 1)
    /\ lpc' = [lpc EXCEPT ![l] = 1]
    /\ UNCHANGED <<assets, aborted, templates, templatesMu, execVars>>

JoinedNever(l) == TRUE
\* wg.Wait() returns once every goroutine of the call has run wg.Done()
Joined(l) == wg[l] = 0

\* parseHTMLTemplates returns nil and Load calls the next group
LoadNextGroup(l) ==
    /\ ~ aborted
    /\ lpc[l] \in 1..(Len(Load) - 1)
    /\ Joined(l)
    /\ ParseSpawn(l, lpc[l] + 1)
    /\ lpc' = [lpc EXCEPT ![l] = @ + 1]
    /\ UNCHANGED <<assets, aborted, templates, templatesMu, execVars>>

\* the last group has returned nil: Load returns
LoadReturn(l) ==
    /\ ~ aborted
    /\ lpc[l] = Len(Load)
    /\ Joined(l)
    /\ lpc' = [lpc EXCEPT ![l] = LoadReturned]
    /\ UNCHANGED <<assets, aborted, wg, ct, templates, templatesMu, execVars>>

\* tname of the current iteration of for _, tname := range set
Tname(c) == ct[c].set[ct[c].i]

FetchNeverFails(kind) == FALSE
\* tmpldata.Data.Open or ioutil.ReadAll returns an error
FetchFails(kind) == kind \in {"missing", "unreadable"}

\* Open and ReadAll of one fragment
CompileFetch(c) ==
    /\ ~ aborted
    /\ ct[c].pc = "fetch"
    /\ IF FetchFails(assets[Tname(c)])
       THEN Fatal
       ELSE /\ ct' = [ct EXCEPT ![c].pc = "parse"]
            /\ UNCHANGED <<assets, aborted, lpc, wg>>
    /\ UNCHANGED <<templates, templatesMu, execVars>>

ParseNeverFails(kind) == FALSE
\* t.Parse returns an error
ParseFails(kind) == kind = "malformed"

\* t.Parse of one fragment: its definitions are added to t
CompileParse(c) ==
    /\ ~ aborted
    /\ ct[c].pc = "parse"
    /\ IF ParseFails(assets[Tname(c)])
       THEN Fatal
       ELSE /\ ct' = [ct EXCEPT ![c].t = <<c, Append(@[2], Tname(c))>>,
                                ![c].i = @ + 1,
                                ![c].pc = IF ct[c].i = Len(ct[c].set)
                                          THEN "lookup" ELSE "fetch"]
            /\ UNCHANGED <<assets, aborted, lpc, wg>>
    /\ UNCHANGED <<templates, templatesMu, execVars>>

RootAlwaysFound(u) == TRUE
\* t.Lookup("ROOT") is not nil: a parsed fragment defines ROOT
RootFound(u) == \E i \in DOMAIN u[2] : assets[u[2][i]] = "root"

\* t = t.Lookup("ROOT"); if t == nil { log.Fatalf }
CompileLookup(c) ==
    /\ ~ aborted
    /\ ct[c].pc = "lookup"
    /\ IF RootFound(ct[c].t)
       THEN /\ ct' = [ct EXCEPT ![c].pc = "add"]
            /\ UNCHANGED <<assets, aborted, lpc, wg>>
       ELSE Fatal
    /\ UNCHANGED <<templates, templatesMu, execVars>>

\* Add(set[0], t): templatesMu.Lock()
CompileAddLock(c) ==
    /\ ~ aborted
    /\ ct[c].pc = "add"
    /\ templatesMu = Nil
    /\ templatesMu' = c
    /\ ct' = [ct EXCEPT ![c].pc = "add_locked"]
    /\ UNCHANGED <<assets, aborted, lpc, wg, templates, execVars>>

CompiledUnitEmpty(c) == <<c, <<>>>>
\* the template the goroutine passes to Add
CompiledUnit(c) == ct[c].t

CompileAddWriteAll(c) ==
    /\ ~ aborted
    /\ ct[c].pc = "add_locked"
    /\ templates' = [k \in DOMAIN templates |-> CompiledUnit(c)]
    /\ ct' = [ct EXCEPT ![c].pc = "add_written"]
    /\ UNCHANGED <<assets, aborted, lpc, wg, templatesMu, execVars>>

\* Add(set[0], t): templates[name] = tmpl
CompileAddWriteFreshMap(c) ==
    /\ ~ aborted
    /\ ct[c].pc = "add_locked"
    /\ templates' = [k \in DOMAIN templates |->
                        IF k = ct[c].set[1] THEN CompiledUnit(c) ELSE NoUnit]
    /\ ct' = [ct EXCEPT ![c].pc = "add_written"]
    /\ UNCHANGED <<assets, aborted, lpc, wg, templatesMu, execVars>>

CompileAddWrite(c) ==
    /\ ~ aborted
    /\ ct[c].pc = "add_locked"
    /\ templates' = [templates EXCEPT ![ct[c].set[1]] = CompiledUnit(c)]
    /\ ct' = [ct EXCEPT ![c].pc = "add_written"]
    /\ UNCHANGED <<assets, aborted, lpc, wg, templatesMu, execVars>>

\* Add(set[0], t): templatesMu.Unlock()
CompileAddUnlock(c) ==
    /\ ~ aborted
    /\ ct[c].pc = "add_written"
    /\ templatesMu' = Nil
    /\ ct' = [ct EXCEPT ![c].pc = "added"]
    /\ UNCHANGED <<assets, aborted, lpc, wg, templates, execVars>>

\* the goroutine ends: the deferred wg.Done()
CompileDone(c) ==
    /\ ~ aborted
    /\ ct[c].pc = "added"
    /\ wg' = [wg EXCEPT ![ct[c].loader] = @ - 1]
    /\ ct' = [ct EXCEPT ![c].pc = "done"]
    /\ UNCHANGED <<assets, aborted, lpc, templates, templatesMu, execVars>>

\* a direct caller of Get asks for a declared key
GetCall(r) ==
    /\ ~ aborted
    /\ pc[r] = "idle"
    /\ \E name \in DeclaredKeys :
         call' = [call EXCEPT ![r] = [NoCall EXCEPT !.name = name]]
    /\ pc' = [pc EXCEPT ![r] = "get"]
    /\ UNCHANGED loadVars
    /\ UNCHANGED <<templates, templatesMu, data, given, appEvent, t, bw, resp, result,
                   eventLog, pageViews, lookups, executions, mpc>>

\* the fragment files are as the build embedded them, good or with one fault
InitLoad ==
    /\ templates = [n \in RegistryNames |-> NoUnit]
    /\ templatesMu = Nil
    /\ pc = [r \in ExecTasks |-> "idle"]
    /\ call = [r \in ExecTasks |-> NoCall]
    /\ data = [r \in ExecTasks |-> NilData]
    /\ given = [r \in ExecTasks |-> NilData]
    /\ appEvent = [r \in ExecTasks |-> NoEvent]
    /\ t = [r \in ExecTasks |-> NoUnit]
    /\ bw = [r \in ExecTasks |-> EmptyBuffer]
    /\ resp = [r \in ExecTasks |-> <<>>]
    /\ result = [r \in ExecTasks |-> Pending]
    /\ eventLog = [r \in ExecTasks |-> <<>>]
    /\ pageViews = [r \in ExecTasks |-> <<>>]
    /\ lookups = [r \in ExecTasks |-> 0]
    /\ executions = [r \in ExecTasks |-> 0]
    /\ mpc = [m \in MutTasks |-> "idle"]
    /\ assets \in AssetWorlds
    /\ aborted = FALSE
    /\ lpc = [l \in Loaders |-> 0]
    /\ wg = [l \in Loaders |-> 0]
    /\ ct = [c \in CompileTasks |-> NoTask]

\* two tasks call Load, at any time and in any interleaving, while another
\* task calls Get; nothing runs after log.Fatalf has ended the process
NextLoad ==
    \/ \E l \in Loaders :
        \/ LoadBegin(l)
        \/ LoadNextGroup(l)
        \/ LoadReturn(l)
    \/ \E c \in CompileTasks :
        \/ CompileFetch(c)
        \/ CompileParse(c)
        \/ CompileLookup(c)
        \/ CompileAddLock(c)
        \/ CompileAddWrite(c)
        \/ CompileAddUnlock(c)
        \/ CompileDone(c)
    \/ \E r \in ExecTasks :
        \/ GetCall(r)
        \/ ~ aborted /\ GetLock(r)
        \/ ~ aborted /\ GetRead(r)
        \/ ~ aborted /\ GetUnlock(r)

SpecLoad == InitLoad /\ [][NextLoad]_vars

----------------------------------------------------------------------------
(* Every kind of task together: a Load call with its compile tasks, a caller
   of Add and Delete, and an Exec call *)

\* one plain page request: no page data, status 200, no caller headers
ExecBeginPlain(r) ==
    ExecBeginWith(r, {CHOOSE q \in Requests : q.cookie = "valid" /\ q.CacheControl = <<>>},
                  {"repo/main.html"}, {200}, {{}}, {NilData})

InitTasks == InitLoad /\ assets = GoodAssets

NextTasks ==
    \/ LoadBegin("loadA")
    \/ LoadNextGroup("loadA")
    \/ LoadReturn("loadA")
    \/ \E c \in CompileTasks :
         \/ CompileFetch(c)
         \/ CompileParse(c)
         \/ CompileLookup(c)
         \/ CompileAddLock(c)
         \/ CompileAddWrite(c)
         \/ CompileAddUnlock(c)
         \/ CompileDone(c)
    \/ \E m \in MutTasks :
         \/ AddLock(m)
         \/ AddWrite(m)
         \/ AddUnlock(m)
         \/ DeleteLock(m)
         \/ DeleteWrite(m)
         \/ DeleteUnlock(m)
    \/ \E r \in ExecTasks :
         \/ ExecBeginPlain(r)
         \/ ExecContext(r)
         \/ ExecLogEvents(r)
         \/ ExecBuffer(r)
         \/ GetLock(r)
         \/ GetRead(r)
         \/ GetUnlock(r)
         \/ ExecLookupMiss(r)
         \/ ExecuteBegin(r)
         \/ ExecuteWrite(r)
         \/ ExecuteFail(r)
         \/ ExecFlush(r)

SpecTasks == InitTasks /\ [][NextTasks]_vars

----------------------------------------------------------------------------
(* A render that hangs *)

\* the request task whose template execution never returns, and another one
HungTask == "exec1"
OtherTask == "exec2"
RequestTasks == {HungTask, OtherTask}

InitHang ==
    /\ templates = [n \in RegistryNames |-> NoUnit]
    /\ templatesMu = Nil
    /\ pc = [r \in RequestTasks |-> "idle"]
    /\ call = [r \in RequestTasks |-> NoCall]
    /\ data = [r \in RequestTasks |-> NilData]
    /\ given = [r \in RequestTasks |-> NilData]
    /\ appEvent = [r \in RequestTasks |-> NoEvent]
    /\ t = [r \in RequestTasks |-> NoUnit]
    /\ bw = [r \in RequestTasks |-> EmptyBuffer]
    /\ resp = [r \in RequestTasks |-> <<>>]
    /\ result = [r \in RequestTasks |-> Pending]
    /\ eventLog = [r \in RequestTasks |-> <<>>]
    /\ pageViews = [r \in RequestTasks |-> <<>>]
    /\ lookups = [r \in RequestTasks |-> 0]
    /\ executions = [r \in RequestTasks |-> 0]
    /\ mpc = [m \in MutTasks |-> "idle"]
    /\ assets = GoodAssets
    /\ aborted = FALSE
    /\ lpc = [l \in Loaders |-> 0]
    /\ wg = [l \in Loaders |-> 0]
    /\ ct = [c \in CompileTasks |-> NoTask]

\* the steps of an Exec call up to the start of the template execution,
\* without the waiting for the lock
ExecStepsToExecute(r) ==
    \/ ExecContext(r)
    \/ ExecLogEvents(r)
    \/ ExecBuffer(r)
    \/ GetRead(r)
    \/ GetUnlock(r)
    \/ ExecLookupMiss(r)
    \/ ExecuteBegin(r)

\* the steps of a template execution that goes on and ends
ExecuteSteps(r) ==
    \/ ExecuteWrite(r)
    \/ ExecuteFail(r)
    \/ ExecFlush(r)

\* the steps of a Delete call once it has the lock
DeleteSteps(m) ==
    \/ DeleteWrite(m)
    \/ DeleteUnlock(m)

\* the steps of a compile task other than waiting for the lock
CompileSteps(c) ==
    \/ CompileFetch(c)
    \/ CompileParse(c)
    \/ CompileLookup(c)
    \/ CompileAddWrite(c)
    \/ CompileAddUnlock(c)
    \/ CompileDone(c)

\* the steps of a Load call after it was called
LoadSteps(l) ==
    \/ LoadNextGroup(l)
    \/ LoadReturn(l)

\* the execution of HungTask never takes a step once it has begun
NextHang ==
    \/ \E r \in RequestTasks :
        \/ ExecBeginPlain(r)
        \/ GetLock(r)
        \/ ExecStepsToExecute(r)
    \/ ExecuteSteps(OtherTask)
    \/ \E m \in MutTasks :
        \/ DeleteLock(m)
        \/ DeleteSteps(m)
    \/ LoadBegin("loadA")
    \/ LoadSteps("loadA")
    \/ \E c \in CompileTasks :
        \/ CompileAddLock(c)
        \/ CompileSteps(c)

\* every task that can take a step is scheduled sooner or later, and a task
\* waiting at Lock gets the lock if it is free again and again
FairHang ==
    /\ \A r \in RequestTasks : WF_vars(ExecStepsToExecute(r))
    /\ SF_vars(GetLock(OtherTask))
    /\ WF_vars(ExecuteSteps(OtherTask))
    /\ \A m \in MutTasks : WF_vars(DeleteSteps(m))
    /\ WF_vars(LoadSteps("loadA"))
    /\ \A c \in TasksOf("loadA") : WF_vars(CompileSteps(c)) /\ SF_vars(CompileAddLock(c))

SpecHang == InitHang /\ [][NextHang]_vars /\ FairHang

----------------------------------------------------------------------------
(* Reloads next to entries registered with Add *)

\* a name that no declared template set registers
CustomName == "custom/page.html"

ReloadNames == RegistryNames \cup {CustomName}

\* the unit registered under the custom name
CustomUnit == <<"unitA">>

\* Add (57-61) called with the custom name and its unit
AddWriteCustom(m) ==
    /\ mpc[m] = "add_locked"
    /\ templates' = [templates EXCEPT ![CustomName] = CustomUnit]
    /\ mpc' = [mpc EXCEPT ![m] = "add_written"]
    /\ UNCHANGED loadVars
    /\ UNCHANGED <<templatesMu, pc, call, data, given, appEvent, t, bw, resp, result,
                   eventLog, pageViews, lookups, executions>>

InitReload ==
    /\ templates = [n \in ReloadNames |-> NoUnit]
    /\ templatesMu = Nil
    /\ pc = [r \in ExecTasks |-> "idle"]
    /\ call = [r \in ExecTasks |-> NoCall]
    /\ data = [r \in ExecTasks |-> NilData]
    /\ given = [r \in ExecTasks |-> NilData]
    /\ appEvent = [r \in ExecTasks |-> NoEvent]
    /\ t = [r \in ExecTasks |-> NoUnit]
    /\ bw = [r \in ExecTasks |-> EmptyBuffer]
    /\ resp = [r \in ExecTasks |-> <<>>]
    /\ result = [r \in ExecTasks |-> Pending]
    /\ eventLog = [r \in ExecTasks |-> <<>>]
    /\ pageViews = [r \in ExecTasks |-> <<>>]
    /\ lookups = [r \in ExecTasks |-> 0]
    /\ executions = [r \in ExecTasks |-> 0]
    /\ mpc = [m \in MutTasks |-> "idle"]
    /\ assets = GoodAssets
    /\ aborted = FALSE
    /\ lpc = [l \in Loaders |-> 0]
    /\ wg = [l \in Loaders |-> 0]
    /\ ct = [c \in CompileTasks |-> NoTask]

\* two Load runs, Add under the custom name and a Get of a declared key
NextReload ==
    \/ \E l \in Loaders :
        \/ LoadBegin(l)
        \/ LoadNextGroup(l)
        \/ LoadReturn(l)
    \/ \E c \in CompileTasks :
        \/ CompileFetch(c)
        \/ CompileParse(c)
        \/ CompileLookup(c)
        \/ CompileAddLock(c)
        \/ CompileAddWrite(c)
        \/ CompileAddUnlock(c)
        \/ CompileDone(c)
    \/ \E m \in MutTasks :
        \/ AddLock(m)
        \/ AddWriteCustom(m)
        \/ AddUnlock(m)
    \/ \E r \in ExecTasks :
        \/ GetCall(r)
        \/ GetLock(r)
        \/ GetRead(r)
        \/ GetUnlock(r)

SpecReload == InitReload /\ [][NextReload]_vars

----------------------------------------------------------------------------
(* Properties of Exec *)

Returned(r) == pc[r] = "returned"

\* the context step is behind the call: it neither aborted on the session
\* read nor panicked
PastContext(r) ==
    \/ pc[r] \in {"log", "buffer", "get", "get_locked", "get_read", "got", "executing"}
    \/ pc[r] = "returned" /\ result[r] # ErrSessionIO

\* the context step has stored a Common into the page data
Injected(r) == PastContext(r) /\ ~ given[r].isNil

\* the body a complete execution of unit u against page data d produces
FullBody(u, d) == [i \in 1..MaxChunks |-> Chunk(u, d, i)]

\* the sink holds exactly one flushed response: the caller's status, the
\* buffered headers and a complete body
FullyFlushed(r) ==
    /\ Len(resp[r]) = 1
    /\ resp[r][1].code = call[r].status
    /\ resp[r][1].header = BufferHeader(call[r].header)
    /\ \E u \in Units : resp[r][1].body = FullBody(u, data[r])

\* C1: every Exec call that returns either returns success with the complete
\* buffered response flushed once to the sink, or returns an error with
\* nothing on the sink; and the sink never holds a partial response.
C1_AllOrNothing ==
    \A r \in ExecTasks :
        /\ Returned(r) =>
            \/ result[r] = Nil /\ FullyFlushed(r)
            \/ result[r] # Nil /\ resp[r] = <<>>
        /\ ~ Returned(r) => resp[r] = <<>>

\* C2: a call with a status other than Not Modified whose lookup found no
\* unit returns the lookup-miss error and its sink has received nothing.
C2_LookupMissNothingFlushed ==
    \A r \in ExecTasks :
        /\ (Returned(r) /\ lookups[r] = 1 /\ t[r] = NoUnit) =>
            /\ call[r].status # StatusNotModified
            /\ result[r] = ErrNotFound
            /\ resp[r] = <<>>
        /\ result[r] = ErrNotFound => (lookups[r] = 1 /\ t[r] = NoUnit /\ executions[r] = 0)

C2_Witness ==
    \E r \in ExecTasks :
        /\ Returned(r) /\ result[r] = ErrNotFound
        /\ bw[r].code = call[r].status /\ bw[r].header # {}

\* C3: when template execution fails, whatever part of the body was already
\* written to the buffer, Exec returns the execution error and the sink has
\* received nothing.
C3_ExecutionFailureSinkUntouched ==
    \A r \in ExecTasks :
        /\ result[r] = ErrExecute =>
            (Returned(r) /\ executions[r] = 1 /\ resp[r] = <<>>)
        /\ (pc[r] = "executing") => resp[r] = <<>>

C3_Witness ==
    \E r \in ExecTasks :
        /\ Returned(r) /\ result[r] = ErrExecute
        /\ Len(bw[r].body) > 0 /\ Len(bw[r].body) < MaxChunks

\* C4: a call with status Not Modified that returns success has delivered
\* the buffered status and headers, with an empty body, to the sink.
C4_NotModifiedDelivered ==
    \A r \in ExecTasks :
        (Returned(r) /\ call[r].status = StatusNotModified /\ result[r] = Nil) =>
            resp[r] = << [header |-> BufferHeader(call[r].header),
                          code |-> StatusNotModified,
                          body |-> <<>>] >>

\* C5 as stated: a call with status Not Modified never looks up the Registry,
\* never executes a template, and returns success.
C5_NotModifiedAlwaysSucceeds ==
    \A r \in ExecTasks :
        call[r].status = StatusNotModified =>
            /\ lookups[r] = 0 /\ executions[r] = 0
            /\ Returned(r) => result[r] = Nil

\* C5 amended: a call with status Not Modified never looks up the Registry
\* and never executes a template, registered name or not; it never returns a
\* lookup-miss or execution error, and it returns success unless the context
\* step aborted on a session read error, which is then what it returns.
C5_NotModifiedNoLookup ==
    \A r \in ExecTasks :
        call[r].status = StatusNotModified =>
            /\ lookups[r] = 0 /\ executions[r] = 0 /\ t[r] = NoUnit
            /\ pc[r] \notin {"get", "get_locked", "get_read", "got", "executing"}
            /\ Returned(r) =>
                \/ result[r] = Nil
                \/ /\ result[r] = ErrSessionIO
                   /\ ~ given[r].isNil
                   /\ ReadSessionCookie(call[r].req).err = ErrSessionIO

C5_Witness ==
    \E r \in ExecTasks :
        /\ call[r].status = StatusNotModified
        /\ Returned(r) /\ result[r] = Nil
        /\ templates[call[r].name] # NoUnit
        /\ bw[r].code = StatusNotModified

----------------------------------------------------------------------------
(* Properties of the injected Common *)

\* the fields of Common other than HideMOTD and CanonicalURL
OtherFields ==
    { "RequestHost", "Session", "CSRFToken", "CurrentUser", "UserEmails",
      "CurrentRoute", "CurrentURI", "CurrentURL", "CurrentQuery", "CurrentSpanID",
      "TemplateName", "AppURL", "HostName", "Ctx", "CurrentRouteVars", "Debug",
      "ReturnTo", "DisableExternalLinks", "Features", "ErrorID", "CacheControl",
      "HideSearch" }

\* what the request and the collaborators give for each field: nothing in it
\* comes from the Common the caller supplied
RequestDerived(r) ==
    LET req == call[r].req IN
    [ RequestHost |-> req.Host,
      Session |-> ReadSessionCookie(req).sess,
      CSRFToken |-> Token(req),
      CurrentUser |-> FullUserFromRequest(req),
      UserEmails |-> EmailsFromRequest(req),
      CurrentRoute |-> RouteName(req),
      CurrentURI |-> req.URL,
      CurrentURL |-> <<AppURL[1], req.URL[2], req.URL[3]>>,
      CurrentQuery |-> Query(req.URL),
      CurrentSpanID |-> SpanID(req),
      TemplateName |-> call[r].name,
      AppURL |-> AppURL,
      CanonicalURL |-> <<AppURL[1], req.URL[2], "">>,
      HostName |-> "",
      Ctx |-> FromRequest(req),
      CurrentRouteVars |-> Vars(req),
      Debug |-> DebugMode(req),
      ReturnTo |-> BestGuess(req),
      DisableExternalLinks |-> DisableExternalLinks,
      Features |-> Features,
      ErrorID |-> IF given[r].Err = "nofield" THEN <<>> ELSE appEvent[r].Message[2],
      CacheControl |-> IF req.CacheControl = <<>> THEN <<>> ELSE NoCache,
      HideSearch |-> FALSE ]

\* C6 as stated: after the injection HideMOTD is the caller's and every other
\* field of Common, CanonicalURL included, is the request-derived value.
C6_OnlyHideMOTDPreserved ==
    \A r \in ExecTasks :
        Injected(r) =>
            /\ data[r].Common.HideMOTD = given[r].Common.HideMOTD
            /\ \A f \in OtherFields \cup {"CanonicalURL"} :
                data[r].Common[f] = RequestDerived(r)[f]

\* C6 amended: after the injection HideMOTD is the caller's, CanonicalURL is
\* the caller's when the caller supplied one, and every other field of Common
\* is the freshly computed value, whatever the caller had put there.
C6_HideMOTDAndCanonicalPreserved ==
    \A r \in ExecTasks :
        Injected(r) =>
            /\ data[r].Common.HideMOTD = given[r].Common.HideMOTD
            /\ given[r].Common.CanonicalURL # NilPtr =>
                data[r].Common.CanonicalURL = given[r].Common.CanonicalURL
            /\ \A f \in OtherFields : data[r].Common[f] = RequestDerived(r)[f]

C6_Witness ==
    \E r \in ExecTasks :
        /\ Injected(r)
        /\ given[r].Common = CallerCommon(TRUE, CallerCanonical)
        /\ data[r].Common.HideMOTD
        /\ data[r].Common.RequestHost = "h.example"

\* C7: the injected CanonicalURL is the one the caller pre-supplied when there
\* was one, and otherwise the URL derived from the current URL, which is the
\* application base URL resolved against the request URL.
C7_CanonicalURL ==
    \A r \in ExecTasks :
        Injected(r) =>
            data[r].Common.CanonicalURL =
                IF given[r].Common.CanonicalURL # NilPtr
                THEN given[r].Common.CanonicalURL
                ELSE FromURL(<<AppURL[1], call[r].req.URL[2], call[r].req.URL[3]>>)

C7_Witness ==
    \E r \in ExecTasks :
        /\ Injected(r)
        /\ given[r].Common.CanonicalURL = CallerCanonical
        /\ data[r].Common.CanonicalURL = CallerCanonical
        /\ data[r].Common.CurrentURL = <<"app.example", "/repo", "utm=1">>

\* C8: when page data is present and the session read fails with an error
\* other than "no session", Exec returns that error, the page data is as the
\* caller supplied it, no template was looked up or executed, nothing was
\* logged and the sink has received nothing.
C8_SessionErrorAborts ==
    \A r \in ExecTasks :
        LET err == ReadSessionCookie(call[r].req).err IN
        (~ given[r].isNil /\ err \notin {Nil, ErrNoSession}
            /\ pc[r] \notin {"idle", "context"}) =>
            /\ Returned(r)
            /\ result[r] = err
            /\ data[r] = given[r]
            /\ lookups[r] = 0 /\ executions[r] = 0 /\ t[r] = NoUnit
            /\ bw[r] = EmptyBuffer
            /\ eventLog[r] = <<>> /\ pageViews[r] = <<>>
            /\ resp[r] = <<>>

C8_Witness ==
    \E r \in ExecTasks :
        /\ Returned(r) /\ result[r] = ErrSessionIO
        /\ call[r].req.cookie = "corrupt"
        /\ given[r].Common = CallerCommon(TRUE, NilPtr)
        /\ templates[call[r].name] # NoUnit

\* C9: when page data is present and the session read reports "no session",
\* Exec never returns a session error: the injected Common has a nil Session
\* and the call goes on through logging, lookup, execution and flush, its
\* outcome decided by the status, the lookup and the execution alone.
C9_NoSessionIsAnonymous ==
    \A r \in ExecTasks :
        (~ given[r].isNil /\ ReadSessionCookie(call[r].req).err = ErrNoSession) =>
            /\ result[r] \notin {ErrNoSession, ErrSessionIO}
            /\ Injected(r) => data[r].Common.Session = NilPtr
            /\ Returned(r) =>
                /\ Injected(r)
                /\ Len(eventLog[r]) = 1 /\ Len(pageViews[r]) = 1
                /\ call[r].status # StatusNotModified => lookups[r] = 1
                /\ (call[r].status # StatusNotModified /\ t[r] # NoUnit) =>
                        executions[r] = 1
                /\ (result[r] = Nil /\ call[r].status # StatusNotModified) =>
                        FullyFlushed(r)

C9_Witness ==
    \E r \in ExecTasks :
        /\ ~ given[r].isNil /\ call[r].req.cookie = "none"
        /\ Returned(r) /\ result[r] = Nil
        /\ data[r].Common.Session = NilPtr
        /\ data[r].Common.TemplateName = call[r].name
        /\ Len(resp[r]) = 1

\* C10: a call that got past the context step has emitted exactly one
\* analytics event (method the template name, result the decimal status) and
\* exactly one page-view record by the time it buffers, and still exactly one
\* of each when it returns, flushed or not; a call that aborted on a session
\* read error has emitted neither; no call ever emits more than one of each.
C10_EventsExactlyOnce ==
    \A r \in ExecTasks :
        /\ Len(eventLog[r]) <= 1 /\ Len(pageViews[r]) <= 1
        /\ (PastContext(r) /\ pc[r] # "log") =>
            /\ Len(eventLog[r]) = 1 /\ Len(pageViews[r]) = 1
            /\ eventLog[r][1].Method = call[r].name
            /\ eventLog[r][1].Result =
                    (CASE call[r].status = 200 -> <<"2", "0", "0">>
                       [] call[r].status = 304 -> <<"3", "0", "4">>
                       [] call[r].status = 404 -> <<"4", "0", "4">>)
        /\ (Returned(r) /\ result[r] = ErrSessionIO) =>
            (eventLog[r] = <<>> /\ pageViews[r] = <<>>)

C10_Witness ==
    \E r \in ExecTasks :
        /\ Returned(r) /\ result[r] = ErrExecute
        /\ Len(eventLog[r]) = 1 /\ Len(pageViews[r]) = 1

----------------------------------------------------------------------------
(* Properties of single calls over the wider inputs *)

\* s = pre \o sub \o post for some pre and post
OccursIn(sub, s) ==
    \E i \in 0..Len(s), j \in 1..(Len(s) + 1) :
        /\ i < j
        /\ SubSeq(s, 1, i) \o sub \o SubSeq(s, j, Len(s)) = s

\* C18: the injected CacheControl is "no-cache" exactly when the request's
\* cache-control header value contains "no-cache" or "max-age=0", and the
\* empty string otherwise, as for an absent header or "max-age=3600".
C18_CacheControl ==
    \A r \in ExecTasks :
        Injected(r) =>
            LET cc == call[r].req.CacheControl
                out == data[r].Common.CacheControl
            IN
            /\ out = NoCache <=> (OccursIn(NoCache, cc) \/ OccursIn(MaxAge0, cc))
            /\ out # NoCache => out = <<>>
            /\ cc \in {NoCache, MaxAge0Private} => out = NoCache
            /\ cc \in {<<>>, MaxAge3600} => out = <<>>

C18_Witness ==
    \E r \in ExecTasks :
        /\ Injected(r)
        /\ call[r].req.CacheControl = MaxAge0Private
        /\ data[r].Common.CacheControl = NoCache

\* C19: Exec puts a six-character error id in Common.ErrorID exactly when
\* the page data has a non-nil Err; with no Err field, or with an Err that is
\* nil, the call goes on normally and ErrorID is empty.
C19_ErrorIDIffErr ==
    \A r \in ExecTasks :
        (~ given[r].isNil /\ pc[r] \notin {"idle", "context"}
            /\ ~ SessionReadFailed(ReadSessionCookie(call[r].req).err)) =>
            /\ Injected(r)
            /\ IF given[r].Err \in {"nofield", Nil}
               THEN data[r].Common.ErrorID = <<>>
               ELSE Len(data[r].Common.ErrorID) = ErrorIDLen

\* the Content-Type entries of a header map, whatever the case of the key
ContentTypeEntries(h) == { p \in h : CanonicalKey(p[1]) = "Content-Type" }

----------------------------------------------------------------------------
(* Load and the registry *)

\* some call of Load has returned
LoadHasReturned == \E l \in Loaders : lpc[l] = LoadReturned

\* C11: once a call of Load has returned, every declared key (the first
\* fragment of every declared set) is registered, and a Get whose read of the
\* map happens after that return gets a unit, never the absent value.  No
\* Delete runs in this specification.
C11_LoadRegistersAll ==
    /\ [](LoadHasReturned => \A k \in DeclaredKeys : templates[k] # NoUnit)
    /\ [][\A r \in ExecTasks :
            (LoadHasReturned /\ pc[r] = "get_locked" /\ pc'[r] = "get_read")
                => t'[r] # NoUnit]_vars

\* Load has returned, the other Load call has not begun, and a Get has read
\* its key from the map
C11_Witness ==
    \E r \in ExecTasks, l \in Loaders :
        /\ lpc[l] = LoadReturned
        /\ \A o \in Loaders \ {l} : lpc[o] = 0
        /\ pc[r] = "got"
        /\ call[r].name = "def/popover.html"
        /\ t[r] # NoUnit

\* every fragment of the set can be fetched and parsed, and one defines ROOT
SetIsGood(s) ==
    LET set == SetWithLayout(s[1], s[2])
    IN /\ \A i \in DOMAIN set : assets[set[i]] \in {"root", "plain"}
       /\ \E i \in DOMAIN set : assets[set[i]] = "root"

\* the compile task is at a step that fails: a fetch of a missing or
\* unreadable fragment, a parse of a malformed one, a lookup of ROOT in a
\* template without it
AtFailure(c) ==
    \/ ct[c].pc = "fetch" /\ assets[Tname(c)] \in {"missing", "unreadable"}
    \/ ct[c].pc = "parse" /\ assets[Tname(c)] = "malformed"
    \/ ct[c].pc = "lookup" /\ \A i \in DOMAIN ct[c].t[2] : assets[ct[c].t[2][i]] # "root"

\* C12: no partial success.  A compile task whose fetch, parse or ROOT lookup
\* fails never goes on (the step ends the process), and a Load call that has
\* returned had every declared set good and left every declared key
\* registered, in a process that was not aborted.
C12_NoPartialSuccess ==
    /\ [](\A l \in Loaders :
            lpc[l] = LoadReturned =>
                /\ ~ aborted
                /\ \A s \in DeclaredSets : SetIsGood(s) /\ templates[KeyOf(s)] # NoUnit)
    /\ [][\A c \in CompileTasks :
            AtFailure(c) => ct'[c] = ct[c]]_vars

\* the process was aborted in the last group, after the earlier groups were
\* registered, and no Load call has returned
C12_Witness ==
    /\ aborted
    /\ \E l \in Loaders : lpc[l] = Len(Load)
    /\ templates["repo/main.html"] # NoUnit
    /\ \A l \in Loaders : lpc[l] # LoadReturned

\* the unit a Load call by l compiles for key k: the template of the goroutine
\* of k's set, with every fragment of the set and the layout parsed into it
UnitBy(l, k) ==
    LET s == CHOOSE s \in DeclaredSets : KeyOf(s) = k
    IN <<TaskId(l, s[2]), SetWithLayout(s[1], s[2])>>

\* C13: while Load runs again, a Get of a declared key returns a whole unit
\* compiled for that key, by the earlier Load call or by the one running, or
\* the absent value if none was registered yet.  Once a Load call has returned
\* (the key was registered before the reload), the Get returns one of the two
\* whole units, by a call that has begun; never anything else, never a
\* template with only some fragments parsed.
C13_ReloadReadsOldOrNew ==
    /\ [](\A r \in ExecTasks :
            pc[r] \in {"get_read", "got"} =>
                t[r] \in {NoUnit} \cup { UnitBy(l, call[r].name) : l \in Loaders })
    /\ [][\A r \in ExecTasks :
            (LoadHasReturned /\ pc[r] = "get_locked" /\ pc'[r] = "get_read")
                => t'[r] \in { UnitBy(l, call[r].name) : l \in { o \in Loaders : lpc[o] > 0 } }]_vars

\* one Load call has returned and the other is in its first group: a Get got
\* the unit of the call that is running, while another key still holds the
\* unit of the call that returned
C13_Witness ==
    \E r \in ExecTasks :
        /\ lpc["loadA"] = LoadReturned
        /\ lpc["loadB"] = 1
        /\ pc[r] = "got"
        /\ call[r].name = "repo/main.html"
        /\ t[r] = UnitBy("loadB", "repo/main.html")
        /\ templates["repo/search.html"] = UnitBy("loadA", "repo/search.html")

\* C14: with Load calls running at the same time, every value in the registry
\* is fully formed: it is under a declared key, it is the whole unit of that
\* key's set (every fragment of the set and the layout fetched and parsed,
\* ROOT found), and the goroutine that inserts it has finished parsing.  What
\* a reader got from Get is never a template still being parsed.
C14_RegisteredUnitsFullyFormed ==
    /\ [](\A k \in RegistryNames :
            templates[k] # NoUnit =>
                /\ k \in DeclaredKeys
                /\ \E l \in Loaders : templates[k] = UnitBy(l, k)
                /\ SetIsGood(CHOOSE s \in DeclaredSets : KeyOf(s) = k))
    /\ [](\A r \in ExecTasks, c \in CompileTasks :
            (t[r] # NoUnit /\ ct[c].pc \in {"fetch", "parse", "lookup"}) => ct[c].t # t[r])
    /\ [][\A k \in RegistryNames :
            templates'[k] # templates[k] =>
                \E c \in CompileTasks :
                    /\ ct[c].pc = "add_locked"
                    /\ ct[c].set[1] = k
                    /\ ct[c].i = Len(ct[c].set) + 1
                    /\ templates'[k] = <<c, ct[c].set>>]_vars

\* both Load calls are in the first group: one has registered its unit of a
\* key while the other call's goroutine for the same key is still parsing
C14_Witness ==
    /\ lpc["loadA"] = 1
    /\ lpc["loadB"] = 1
    /\ templates["repo/main.html"] = UnitBy("loadB", "repo/main.html")
    /\ ct[TaskId("loadA", 1)].pc = "parse"
    /\ ct[TaskId("loadA", 1)].i = 2

----------------------------------------------------------------------------
(* The registry lock *)

\* every task that calls Get, Add or Delete
RegistryTasks == ExecTasks \cup MutTasks \cup CompileTasks

\* the task is between templatesMu.Lock() and templatesMu.Unlock() of Get, Add
\* or Delete: the part of the operation that reads or writes the map
InMapAccess(x) ==
    \/ x \in ExecTasks /\ pc[x] \in {"get_locked", "get_read"}
    \/ x \in MutTasks
         /\ mpc[x] \in {"add_locked", "add_written", "delete_locked", "delete_written"}
    \/ x \in CompileTasks /\ ct[x].pc \in {"add_locked", "add_written"}

\* C15: every read or write of the registry map happens while the task doing
\* it holds templatesMu.  A task between Lock and Unlock of Get, Add, Delete
\* or a compile task's insert is the holder of the lock, so at most one task
\* is there at a time; a step that reads the map into a Get's result or that
\* changes the map is taken by the holder, who keeps the lock over the step.
C15_MapAccessUnderLock ==
    /\ [](\A x \in RegistryTasks : InMapAccess(x) => templatesMu = x)
    /\ [](Cardinality({ x \in RegistryTasks : InMapAccess(x) }) <= 1)
    /\ [][\A r \in ExecTasks :
            (pc[r] = "get_locked" /\ pc'[r] = "get_read")
                => (templatesMu = r /\ templatesMu' = r)]_vars
    /\ [][templates' # templates =>
            /\ templatesMu' = templatesMu
            /\ \/ \E m \in MutTasks : templatesMu = m /\ mpc'[m] # mpc[m]
               \/ \E c \in CompileTasks : templatesMu = c /\ ct'[c] # ct[c]]_vars

\* a Get holds the lock for its read, after an Add call has registered a
\* unit, while a compile task waits at Lock for its insert
C15_Witness ==
    \E r \in ExecTasks, c \in CompileTasks :
        /\ pc[r] = "get_locked"
        /\ templatesMu = r
        /\ ct[c].pc = "add"
        /\ templates["error/error.html"] \in Units


\* C16: a task holds the registry lock only between Lock and Unlock of its own
\* Get, Add or Delete: never while it is in any other part of Exec (executing
\* the template included), never while a compile task fetches, parses or looks
\* ROOT up, and never after the operation has returned.
C16_LockOnlyAcrossMapAccess ==
    /\ \A r \in ExecTasks : templatesMu = r => pc[r] \in {"get_locked", "get_read"}
    /\ \A m \in MutTasks :
         templatesMu = m =>
            mpc[m] \in {"add_locked", "add_written", "delete_locked", "delete_written"}
    /\ \A c \in CompileTasks : templatesMu = c => ct[c].pc \in {"add_locked", "add_written"}
    /\ templatesMu \in {Nil} \cup RegistryTasks

\* an Exec call is executing its template and a compile task is parsing a
\* fragment while a third task, inside Delete, holds the lock
C16_Witness ==
    \E r \in ExecTasks, m \in MutTasks, c \in CompileTasks :
        /\ pc[r] = "executing"
        /\ bw[r].body # <<>>
        /\ ct[c].pc = "parse"
        /\ templatesMu = m
        /\ mpc[m] = "delete_locked"


----------------------------------------------------------------------------
(* The registry as an atomic map *)

\* the steps of the atomic map the registry implements
MapAdd(name, unit) == templates' = [templates EXCEPT ![name] = unit]
MapDelete(name) == templates' = [templates EXCEPT ![name] = NoUnit]

\* C17: the registry is a linearizable map.  Each Get, Add and Delete takes
\* effect in one step, taken alone (under the lock) between its call and its
\* return: the step of an Add, by a caller or by a compile task, puts the unit
\* under its name (replacing what was there) and leaves every other entry as it
\* was; the step of a Delete makes its name absent and leaves every other
\* entry as it was; the step of a Get changes nothing and returns what the map
\* holds under the name at that moment, the absent value when nothing does.
\* Nothing else ever changes the map.
C17_LinearizableMap ==
    /\ [][\A m \in MutTasks :
            /\ (mpc[m] = "add_locked" /\ mpc'[m] = "add_written")
                  => \E name \in RegistryNames, unit \in Units : MapAdd(name, unit)
            /\ (mpc[m] = "delete_locked" /\ mpc'[m] = "delete_written")
                  => \E name \in RegistryNames : MapDelete(name)]_vars
    /\ [][\A c \in CompileTasks :
            (ct[c].pc = "add_locked" /\ ct'[c].pc = "add_written")
                => MapAdd(ct[c].set[1], ct[c].t)]_vars
    /\ [][\A r \in ExecTasks :
            (pc[r] = "get_locked" /\ pc'[r] = "get_read")
                => (templates' = templates /\ t'[r] = templates[call[r].name])]_vars
    /\ [][templates' # templates =>
            \/ \E m \in MutTasks :
                 mpc[m] \in {"add_locked", "delete_locked"} /\ mpc'[m] # mpc[m]
            \/ \E c \in CompileTasks :
                 ct[c].pc = "add_locked" /\ ct'[c].pc = "add_written"]_vars
    /\ [](\A r \in ExecTasks : lookups[r] <= 1)

\* a Get returned the unit an Add call had put under the name, the name has
\* been deleted since, and the entry a compile task added under another name
\* is still there
C17_Witness ==
    \E r \in ExecTasks, m \in MutTasks :
        /\ pc[r] = "got"
        /\ t[r] \in Units
        /\ templates[call[r].name] = NoUnit
        /\ mpc[m] = "delete_written"
        /\ templates["repo/search.html"] # NoUnit


----------------------------------------------------------------------------
(* The flushed response *)

\* C21: when Exec has returned success for a status other than Not Modified,
\* the sink holds exactly one response: the status the caller asked for, every
\* header the caller supplied, and the whole body of executing the looked-up
\* unit against the page data.  The sink is written in one step only, the
\* step in which a finished execution returns.
C21_SuccessFlushesWholeResponse ==
    /\ [](\A r \in ExecTasks :
            (Returned(r) /\ result[r] = Nil /\ call[r].status # StatusNotModified) =>
                /\ Len(resp[r]) = 1
                /\ resp[r][1].code = call[r].status
                /\ call[r].header \subseteq resp[r][1].header
                /\ t[r] # NoUnit
                /\ resp[r][1].body = FullBody(t[r], data[r]))
    /\ [][\A r \in ExecTasks :
            resp'[r] # resp[r] =>
                /\ pc[r] = "executing"
                /\ bw[r].body = FullBody(t[r], data[r])
                /\ pc'[r] = "returned"
                /\ resp[r] = <<>>]_vars

\* a call with status 404 and a caller header has returned success with its
\* response on the sink
C21_Witness ==
    \E r \in ExecTasks :
        /\ Returned(r)
        /\ result[r] = Nil
        /\ call[r].status = 404
        /\ call[r].header = { <<"X-Frame-Options", "DENY">> }
        /\ Len(resp[r]) = 1


----------------------------------------------------------------------------
(* Fan-out and join *)

\* C22: parseHTMLTemplates returns to Load only after every goroutine it
\* started has ended.  In the step in which the call for a group returns (Load
\* goes on to the next group or returns), every goroutine of the group has
\* ended and the wait group is at zero; and once Load has returned none of
\* its goroutines is fetching, parsing or inserting.
C22_JoinBeforeReturn ==
    /\ [][\A l \in Loaders :
            (lpc[l] \in DOMAIN Load /\ lpc'[l] # lpc[l]) =>
                /\ wg[l] = 0
                /\ \A n \in DOMAIN Load[lpc[l]].sets : ct[TaskId(l, n)].pc = "done"
                /\ \A c \in TasksOf(l) : ct[c].pc \in {"none", "done"}]_vars
    /\ [](\A l \in Loaders :
            lpc[l] = LoadReturned => \A c \in TasksOf(l) : ct[c].pc \in {"none", "done"})
    /\ [](\A l \in Loaders :
            wg[l] = Cardinality({ c \in TasksOf(l) : ct[c].pc \notin {"none", "done"} }))

\* the call for the first group is blocked in wg.Wait: one goroutine has
\* ended, the other is still parsing
C22_Witness ==
    /\ lpc["loadA"] = 1
    /\ wg["loadA"] = 1
    /\ ct[TaskId("loadA", 2)].pc = "done"
    /\ ct[TaskId("loadA", 1)].pc = "parse"


----------------------------------------------------------------------------
(* What a compile task touches *)

\* the step is one of compile task c itself (not the spawn that starts it)
StepOf(c) == ct'[c] # ct[c] /\ ct[c].pc \notin {"none", "done"}

\* C23: a compile task writes only its own registry entry.  Its steps change
\* the map in one step only, the write of its Add, and there only the entry
\* under set[0]; it reaches that write once (from the ROOT lookup, through
\* Lock), and it ends only after it.  Besides that entry a step of the task
\* changes nothing but the task's own template and position, the registry lock
\* at Lock and Unlock, and its own call's wait-group count when it ends: no
\* other task's state, no Load position, no fragment, nothing of any reader.
C23_CompileTaskWritesOwnEntry ==
    [][\A c \in CompileTasks :
        StepOf(c) =>
            /\ \A k \in RegistryNames \ {ct[c].set[1]} : templates'[k] = templates[k]
            /\ templates' # templates =>
                 (ct[c].pc = "add_locked" /\ ct'[c].pc = "add_written"
                  /\ templates'[ct[c].set[1]] = ct[c].t)
            /\ ct'[c].pc = "add_written" => templates'[ct[c].set[1]] = ct[c].t
            /\ ct'[c].pc = "add_locked" => ct[c].pc = "add"
            /\ ct'[c].pc = "add" => ct[c].pc = "lookup"
            /\ ct'[c].pc = "done" => ct[c].pc = "added"
            /\ ct'[c].pc = "added" => ct[c].pc = "add_written"
            /\ ct'[c].set = ct[c].set
            /\ \A o \in CompileTasks \ {c} : ct'[o] = ct[o]
            /\ \A l \in Loaders \ {ct[c].loader} : wg'[l] = wg[l]
            /\ wg' # wg => ct'[c].pc = "done"
            /\ templatesMu' # templatesMu => (ct[c].pc \in {"add", "add_written"})
            /\ UNCHANGED <<assets, lpc, execVars>>]_vars

\* both goroutines of a group have done their inserts, each under its own
\* key, and one of them has ended
C23_Witness ==
    /\ lpc["loadA"] = 1
    /\ lpc["loadB"] = 0
    /\ ct[TaskId("loadA", 1)].pc = "done"
    /\ ct[TaskId("loadA", 2)].pc = "add_written"
    /\ templates["repo/main.html"] = UnitBy("loadA", "repo/main.html")
    /\ templates["repo/search.html"] = UnitBy("loadA", "repo/search.html")
    /\ templates["error/error.html"] = NoUnit


----------------------------------------------------------------------------
(* Registered units are not changed in place *)

\* the task holding the lock takes the step, from Lock to the write of its
\* Add (Delete when del)
WriteStepOfHolder(del) ==
    \/ \E m \in MutTasks :
         /\ templatesMu = m /\ templatesMu' = m
         /\ mpc[m] = (IF del THEN "delete_locked" ELSE "add_locked")
         /\ mpc'[m] = (IF del THEN "delete_written" ELSE "add_written")
    \/ \E c \in CompileTasks :
         /\ ~ del
         /\ templatesMu = c /\ templatesMu' = c
         /\ ct[c].pc = "add_locked" /\ ct'[c].pc = "add_written"

\* C24: a unit in the registry is never changed in place.  An entry changes
\* only by the write of an Add, which puts another whole unit in its place, or
\* by the write of a Delete, which removes it, and the writer holds the lock.
\* An execution changes neither the entry nor the unit it got from Get, and a
\* compile task does not touch its template again once it has passed it to
\* Add.
C24_NoInPlaceMutation ==
    /\ [][\A k \in RegistryNames :
            templates'[k] # templates[k] =>
                \/ /\ templates'[k] = NoUnit
                   /\ WriteStepOfHolder(TRUE)
                \/ /\ templates'[k] \in Units \cup { UnitBy(l, k) : l \in Loaders }
                   /\ WriteStepOfHolder(FALSE)]_vars
    /\ [][\A r \in ExecTasks :
            pc[r] = "executing" => t'[r] = t[r]]_vars
    /\ [][\A c \in CompileTasks :
            ct[c].pc \in {"add", "add_locked", "add_written", "added"}
                => ct'[c].t = ct[c].t]_vars

\* an execution of a unit is under way while the entry it was read from has
\* been replaced by the unit a compile task inserted
C24_Witness ==
    \E r \in ExecTasks :
        /\ pc[r] = "executing"
        /\ bw[r].body # <<>>
        /\ t[r] \in Units
        /\ templates[call[r].name] = UnitBy("loadA", call[r].name)


----------------------------------------------------------------------------
(* A hung render *)

\* C25: the template execution of one request task never returns.  Under fair
\* scheduling every operation of the other tasks still completes: the other
\* request's Exec returns (its Get before that), a Delete that has the lock
\* returns, the Load call returns (the Add of each of its compile tasks before
\* that), and the registry lock is free again and again.  The hung task stays
\* where it is, inside the execution, without the lock.
C25_HungRenderBlocksOnlyItself ==
    /\ (pc[OtherTask] # "idle") ~> Returned(OtherTask)
    /\ \A m \in MutTasks : (mpc[m] = "delete_locked") ~> (mpc[m] = "idle")
    /\ (lpc["loadA"] = 1) ~> (lpc["loadA"] = LoadReturned)
    /\ []<>(templatesMu = Nil)
    /\ [](pc[HungTask] = "executing" => templatesMu # HungTask)
    /\ [][pc[HungTask] = "executing" => pc'[HungTask] = "executing"]_vars

\* the render of one task hangs; the other request has got its whole
\* response, the Load call has returned and a Delete is under way
C25_Witness ==
    /\ pc[HungTask] = "executing"
    /\ Returned(OtherTask)
    /\ result[OtherTask] = Nil
    /\ Len(resp[OtherTask]) = 1
    /\ lpc["loadA"] = LoadReturned
    /\ \E m \in MutTasks : mpc[m] = "delete_written"


----------------------------------------------------------------------------
(* The correlation id *)

\* C26: the id in the event's message is the id in the page data.  When the
\* event of a call has a message, the call has injected a Common whose ErrorID
\* is the id in the message, of ErrorIDLen characters, and the message carries
\* the page data's Err; when it has none, an injected Common has an empty
\* ErrorID.  The event that was logged is the event with that message.
C26_EventIDIsInjectedID ==
    \A r \in ExecTasks :
        /\ appEvent[r].Message # <<>> =>
            /\ Injected(r)
            /\ appEvent[r].Message[2] = data[r].Common.ErrorID
            /\ Len(data[r].Common.ErrorID) = ErrorIDLen
            /\ appEvent[r].Message[4] = given[r].Err
        /\ (appEvent[r].Message = <<>> /\ Injected(r)) => data[r].Common.ErrorID = <<>>
        /\ \A i \in DOMAIN eventLog[r] : eventLog[r][i] = appEvent[r]

\* a call whose page data has an Err has logged its event with an id
C26_Witness ==
    \E r \in ExecTasks :
        /\ Len(eventLog[r]) = 1
        /\ eventLog[r][1].Message # <<>>
        /\ eventLog[r][1].Message[2] = data[r].Common.ErrorID
        /\ given[r].Err = "boom"


----------------------------------------------------------------------------
(* The injected Common stays *)

\* the call is over: Exec has returned, or it has panicked
Ended(r) == pc[r] \in {"returned", "panicked"}

\* C27: the injection is not rolled back.  When a call with page data is
\* over, the page data differs from what the caller passed (its Common is the
\* injected one) whatever Exec returned: success, the lookup-miss error, the
\* execution error, or nil at Not Modified; the one outcome that leaves the
\* page data as the caller passed it is the abort on the session read error.
C27_InjectionNotRolledBack ==
    \A r \in ExecTasks :
        (Ended(r) /\ ~ given[r].isNil) =>
            IF pc[r] = "returned" /\ result[r] = ErrSessionIO
            THEN data[r] = given[r]
            ELSE /\ data[r] # given[r]
                 /\ data[r].Common.TemplateName = call[r].name
                 /\ data[r].Err = given[r].Err


----------------------------------------------------------------------------
(* Absent page data *)

\* C28: a call without page data does not depend on the session.  Whatever
\* the session cookie, also one whose read fails, the call never returns a
\* session error and never panics, nothing is injected and the event has no
\* message; it logs its event and its page view once and goes on: with a
\* status other than Not Modified it looks the unit up once, executes it once
\* if there is one, and a success leaves the whole response on the sink.
C28_AbsentDataSkipsSession ==
    \A r \in ExecTasks :
        (given[r].isNil /\ pc[r] # "idle") =>
            /\ result[r] \notin {ErrNoSession, ErrSessionIO}
            /\ pc[r] # "panicked"
            /\ data[r] = NilData
            /\ appEvent[r].Message = <<>>
            /\ pc[r] \notin {"context", "log"} =>
                 (Len(eventLog[r]) = 1 /\ Len(pageViews[r]) = 1)
            /\ Returned(r) =>
                /\ call[r].status # StatusNotModified => lookups[r] = 1
                /\ (call[r].status # StatusNotModified /\ t[r] # NoUnit) =>
                        executions[r] = 1
                /\ (result[r] = Nil /\ call[r].status # StatusNotModified) =>
                        FullyFlushed(r)

\* a call without page data, with a session cookie that cannot be read, has
\* returned success with its response on the sink
C28_Witness ==
    \E r \in ExecTasks :
        /\ given[r].isNil
        /\ call[r].req.cookie = "corrupt"
        /\ Returned(r)
        /\ result[r] = Nil
        /\ Len(resp[r]) = 1
        /\ Len(eventLog[r]) = 1


----------------------------------------------------------------------------
(* One lookup per call *)

\* the unit of a call is decided: the lookup has read the registry
AfterLookup(r) == pc[r] \in {"get_read", "got", "executing", "returned"}

\* C29: a call looks its name up once and renders with the unit that lookup
\* returned.  Every chunk in the buffer, and the whole body of a successful
\* response, is output of that unit, whatever the registry holds under the
\* name by then; after the lookup the unit of the call never changes, and a
\* step that changes the registry changes nothing of any call (position,
\* result, unit, buffer, response).
C29_RenderUsesLookedUpUnit ==
    /\ [](\A r \in ExecTasks :
            /\ lookups[r] <= 1
            /\ (AfterLookup(r) /\ t[r] # NoUnit) =>
                \A i \in 1..Len(bw[r].body) :
                    bw[r].body[i] = Chunk(t[r], data[r], i)
            /\ (Returned(r) /\ result[r] = Nil
                    /\ call[r].status # StatusNotModified) =>
                /\ t[r] \in Units
                /\ Len(resp[r]) = 1
                /\ resp[r][1].body = FullBody(t[r], data[r]))
    /\ [][\A r \in ExecTasks : AfterLookup(r) => t'[r] = t[r]]_vars
    /\ [][templates' # templates =>
            /\ pc' = pc /\ result' = result /\ t' = t
            /\ bw' = bw /\ resp' = resp]_vars

\* a render is complete in the buffer, made by the unit its lookup returned,
\* while the registry no longer holds that unit under the name: it was
\* deleted or replaced after the lookup
C29_Witness ==
    \E r \in ExecTasks :
        /\ pc[r] = "executing"
        /\ t[r] \in Units
        /\ templates[call[r].name] # t[r]
        /\ bw[r].body = FullBody(t[r], data[r])


----------------------------------------------------------------------------
(* Load only adds and replaces *)

Registered(k) == templates[k] # NoUnit

\* C30: without Delete no step of any Load run removes a key: a name that is
\* registered stays registered, so the set of registered keys only grows;
\* a Get that reads a registered key gets a unit, also while a reload is
\* replacing the entry; and the entry under a name outside the declared
\* sets is changed by Add alone, never by a step of Load or of a compile
\* task.
C30_LoadNeverRemovesKey ==
    /\ [][\A k \in DOMAIN templates : Registered(k) => templates'[k] # NoUnit]_vars
    /\ [][\A r \in ExecTasks :
            (pc[r] = "get_locked" /\ pc'[r] = "get_read"
                /\ Registered(call[r].name)) => t'[r] # NoUnit]_vars
    /\ [][(lpc' # lpc \/ ct' # ct) =>
            templates'[CustomName] = templates[CustomName]]_vars
    /\ [](templates[CustomName] \in {CustomUnit, NoUnit})

\* a reload is under way after a first Load run has returned: it has
\* replaced one entry of the first run and not yet the others, every
\* declared key is registered, and the entry added under the custom name
\* is still there
C30_Witness ==
    /\ lpc["loadA"] = LoadReturned
    /\ lpc["loadB"] = 1
    /\ templates["repo/main.html"] = UnitBy("loadB", "repo/main.html")
    /\ templates["repo/search.html"] = UnitBy("loadA", "repo/search.html")
    /\ \A k \in DeclaredKeys : Registered(k)
    /\ templates[CustomName] = CustomUnit

====
